---- MODULE Spec2Model ----
(***************************************************************************)
(* Synchronization and reconciliation engine of spend-pal (src/logic.py,   *)
(* schema in src/models/database.py).                                      *)
(*                                                                         *)
(* The relational store is modelled as a transactional store keyed by the  *)
(* user's phone number: a handler works on an in-session copy of the row   *)
(* (mem), db.session.commit() writes the copy back (db), and a handler     *)
(* that ends with an exception leaves only what it had committed.          *)
(* The transaction provider and the messaging provider are the             *)
(* environment: an upstream log of transactions t1..tn per linked account, *)
(* a window of transactions that can still be fetched, and calls that may  *)
(* raise.                                                                  *)
(***************************************************************************)
EXTENDS Integers, Sequences, FiniteSets, TLC

\* ------------------------------------------------------------------ bounds
MaxTx == 3          \* transactions the provider ever reports for one account
PageSize == 2       \* ids in one transactions_sync response
MaxOverlap == 1     \* ids a response may repeat from before the cursor
MaxCalls == 3       \* the external call of a handler that may raise: 1st..MaxCalls-th
RecursionLimit == 12 \* nested calls of sync_single_user the interpreter allows

\* ------------------------------------------------------------ python values
None == 0           \* a NULL column / Python None (ids, dates are positive)

NoneVal == <<"NoneType", 0>>
Dec(n) == <<"Decimal", n>>
Flt(n) == <<"float", n>>

\* v if v is not None else 0.0
OrZero(v) == IF v[1] = "NoneType" THEN 0 ELSE v[2]

Abs(n) == IF n < 0 THEN 0 - n ELSE n
Min(a, b) == IF a < b THEN a ELSE b
Max(a, b) == IF a < b THEN b ELSE a

\* x + y on Python operands: None has no +, and Decimal + float is a TypeError
PyAdd(x, y) ==
    IF x[1] = "NoneType" \/ y[1] = "NoneType" THEN <<"TypeError", 0>>
    ELSE IF x[1] # y[1] THEN <<"TypeError", 0>>
    ELSE <<x[1], x[2] + y[2]>>

\* what a Numeric(10, 2) column gives back after it was assigned v
Numeric(v) == IF v[1] = "NoneType" THEN NoneVal ELSE Dec(v[2])

\* ------------------------------------------------------------------ schema
Phones == {"u1"}

Categories == {"food_and_drink", "general_merchandise"}

NoUser ==
    [exists |-> FALSE,
     plaid_access_token |-> "",
     plaid_item_id |-> "",
     plaid_cursor |-> 0,
     current_reconciling_tx_id |-> None,
     transaction_queue |-> <<>>,
     current_month |-> None,
     monthly_spending |-> [c \in Categories |-> NoneVal],
     budgets |-> [c \in Categories |-> NoneVal]]

\* ------------------------------------------------------- provider's records
\* signed amount of transaction i as the provider reports it
TxAmount(i) == IF i % 2 = 1 THEN 10 * i ELSE 0 - (5 * i)

\* personal_finance_category.primary of transaction i ("" when absent)
TxPrimary(i) ==
    IF i % 3 = 1 THEN "FOOD_AND_DRINK" ELSE IF i % 3 = 2 THEN "" ELSE "OTHER"

\* date of transaction i as month * 100 + day
TxDate(i) == IF i <= 2 THEN 100 + 10 * i + 5 ELSE 200 + i

\* str.lower() on the category labels in use
Lower(s) ==
    IF s = "FOOD_AND_DRINK" THEN "food_and_drink"
    ELSE IF s = "GENERAL_MERCHANDISE" THEN "general_merchandise"
    ELSE IF s = "OTHER" THEN "other"
    ELSE s

\* date.replace(day=1)
MonthStart(d) == (d \div 100) * 100 + 1

\* ------------------------------------------------------ external providers
\* plaid_client.transactions_sync for an account whose upstream log is
\* t1..t(feedLen): the ids after the cursor (after repeating `redeliver` ids
\* from before it on a retry), one page at a time
transactions_sync(env, cursor) ==
    LET start == Max(Min(cursor, env.feedLen) - env.redeliver, 0)
        end == Min(start + PageSize, env.feedLen)
    IN [added |-> [k \in 1..(end - start) |-> start + k],
        next_cursor |-> end,
        has_more |-> end < env.feedLen]

NoAttrs ==
    [found |-> FALSE, transaction_id |-> None, amount |-> NoneVal,
     category |-> "", date |-> None, original_amount |-> NoneVal]

\* _get_tx_attributes once transactions_get has answered: the record of the
\* transaction if it is still inside the 30 days the request asks for
\* (transactions 1..expired are older), else None
_get_tx_attributes(env, transaction_id) ==
    IF transaction_id \in (env.expired + 1)..env.feedLen
    THEN [found |-> TRUE,
          transaction_id |-> transaction_id,
          amount |-> Flt(Abs(TxAmount(transaction_id))),
          category |-> IF TxPrimary(transaction_id) # ""
                       THEN Lower(TxPrimary(transaction_id))
                       ELSE "general_merchandise",
          date |-> TxDate(transaction_id),
          original_amount |-> Flt(TxAmount(transaction_id))]
    ELSE NoAttrs

\* ------------------------------------------------- a handler's running state
\* mem: the session's copy of the user row; base: the row as the session
\* loaded it; db: the committed row; g, gdb: the ids waiting in arrival
\* order, kept beside mem and db to observe the order of prompts; failAt: which external call of the handler raises (0:
\* none); calls: external calls made so far; the rest records what the
\* handler did: failed is the external call that raised, error_msg the
\* text of its exception, feedError that text if the call was the feed's,
\* logged the level the except handler of the feed logged at, offered the
\* amounts that reached the addition to a category's spend, named the
\* limits a budget update carried, depth the calls of sync_single_user
\* that are nested at this point.
Session(loaded, row, fifo, env, failAt) ==
    [mem |-> loaded, base |-> loaded, db |-> row, g |-> fifo, gdb |-> fifo,
     env |-> env,
     failAt |-> failAt, calls |-> 0, extfail |-> FALSE,
     error_msg |-> "", failed |-> "", feedError |-> "", logged |-> "",
     exc |-> "", reply |-> "", listed |-> {}, sms |-> <<>>,
     reconcile_transaction_id |-> None,
     enq |-> <<>>, popped |-> <<>>, skipped |-> <<>>, prompted |-> <<>>,
     confirmed |-> <<>>, feeds |-> 0, errors |-> 0, rollover |-> FALSE,
     inOrder |-> TRUE, offered |-> <<>>, named |-> {}, returned |-> <<>>,
     depth |-> 0]

\* a handler whose session loads the row as it is committed
Ctx(row, fifo, env, failAt) == Session(row, row, fifo, env, failAt)

\* the UPDATE a commit issues: the columns the session changed since it
\* loaded them are written, the others keep what the store holds.  The
\* only changes made to transaction_queue are made in place, by pop(0) and
\* extend; env.tracked says whether the store sees them.  Where it does, a
\* change in place counts as a change of the column and is written; where
\* it does not (the column as declared, db.JSON), the column is never
\* written.  (Here and in Commit the session is bound by a set, which is
\* evaluated once wherever the definition is used.)
Flush(session) ==
    CHOOSE row \in
        {[col \in DOMAIN c.db |->
            IF col \in {"monthly_spending", "budgets"}
            THEN [f \in Categories |->
                    IF c.mem[col][f] # c.base[col][f] THEN c.mem[col][f] ELSE c.db[col][f]]
            ELSE IF col = "transaction_queue" /\ ~c.env.tracked THEN c.db[col]
            ELSE IF c.mem[col] # c.base[col] THEN c.mem[col] ELSE c.db[col]]
         : c \in {session}} : TRUE

\* db.session.commit(): flush, and the session's attributes expire, so the
\* next access reads the committed row
Commit(session) ==
    CHOOSE after \in
        {[c EXCEPT !.db = row, !.mem = row, !.base = row,
                   !.gdb = IF c.env.tracked THEN c.g ELSE @,
                   !.g = IF c.env.tracked THEN @ ELSE c.gdb]
         : c \in {session}, row \in {Flush(session)}} : TRUE

\* the next external call raises
Fails(c) == c.calls + 1 = c.failAt

\* an external call returned
Call(c) == [c EXCEPT !.calls = @ + 1]

Raise(c, e) == [c EXCEPT !.exc = e]

\* the external call that was due raised e
CallRaises(c, call, e) ==
    [c EXCEPT !.exc = e, !.extfail = TRUE, !.failed = call]

RECURSIVE RemoveFirst(_, _)
RemoveFirst(s, x) ==
    IF s = <<>> THEN <<>>
    ELSE IF Head(s) = x THEN Tail(s)
    ELSE <<Head(s)>> \o RemoveFirst(Tail(s), x)

\* _clear_monthly_spending
_clear_monthly_spending(c) ==
    Commit([c EXCEPT !.mem.monthly_spending = [f \in Categories |-> NoneVal]])

\* category.replace("_", " ").title()
Title(s) ==
    IF s = "food_and_drink" THEN "Food And Drink"
    ELSE IF s = "general_merchandise" THEN "General Merchandise"
    ELSE IF s = "other" THEN "Other"
    ELSE s

\* the "New Transaction" text of sync_single_user
PromptMessage(tx_attrs) ==
    [kind |-> "prompt", tx |-> tx_attrs.transaction_id,
     category |-> Title(tx_attrs.category), amount |-> tx_attrs.amount[2]]

\* ---------------------------------------------------------- sync_single_user
\* the guard reading the queue instead of the awaited id
ReconcilingTestsQueue(user) == user.transaction_queue # <<>>

\* the guard never taken
ReconcilingNever(user) == user.current_reconciling_tx_id # user.current_reconciling_tx_id

\* if user.current_reconciling_tx_id:
IsReconciling(user) == user.current_reconciling_tx_id # None

\* the queue branch guarded by the awaited id instead of the queue
QueueTestsAwaited(user) == user.current_reconciling_tx_id # None

\* if user.transaction_queue:
QueueNonEmpty(user) == user.transaction_queue # <<>>

\* the head read and left in the list
QueuePeek(q) == [id |-> Head(q), rest |-> q]

\* pop() in place of pop(0): the newest id is taken
QueuePopLast(q) == [id |-> q[Len(q)], rest |-> SubSeq(q, 1, Len(q) - 1)]

\* user.transaction_queue.pop(0): the id taken and the list left
QueuePop(q) == [id |-> Head(q), rest |-> Tail(q)]

\* user.transaction_queue.extend(transaction_ids)
QueueExtend(q, transaction_ids) == q \o transaction_ids

\* what the prompt step records on the user before it commits: attributes
\* that are not columns of User, so the row's current_reconciling_tx_id
\* stays as it was
MarkReconciling(c, transaction_id) ==
    [c EXCEPT !.reconcile_transaction_id = transaction_id]

\* str(e) of the exceptions an external call is made to raise
ErrorMessages == {"RATE_LIMIT_EXCEEDED", "INVALID_ACCESS_TOKEN environment"}

\* word in error_msg
Mentions(error_msg, word) ==
    /\ error_msg = "INVALID_ACCESS_TOKEN environment"
    /\ word \in {"INVALID_ACCESS_TOKEN", "environment"}

\* the handler of "except Exception" around the feed call: the error is
\* logged, and whatever it was the cursor is emptied and the spend cleared
OnSyncError(c) ==
    Commit(_clear_monthly_spending(
        [c EXCEPT !.exc = "", !.errors = @ + 1, !.mem.plaid_cursor = 0,
                  !.logged = IF /\ Mentions(c.error_msg, "INVALID_ACCESS_TOKEN")
                                /\ Mentions(c.error_msg, "environment")
                             THEN "error" ELSE "warning"]))

RECURSIVE sync_single_user(_)

\* sync_single_user(user) called from sync_single_user: one frame deeper,
\* RecursionError when the interpreter allows no more
SelfCall(c) ==
    IF c.depth >= RecursionLimit THEN Raise(c, "RecursionError")
    ELSE sync_single_user([c EXCEPT !.depth = @ + 1])

sync_single_user(c) ==
    IF IsReconciling(c.mem) THEN c
    ELSE IF QueueNonEmpty(c.mem) THEN
        LET pop == QueuePop(c.mem.transaction_queue)
            transaction_id == pop.id
            oldest == c.g # <<>> /\ Head(c.g) = transaction_id
            c1 == [c EXCEPT !.mem.transaction_queue = pop.rest,
                            !.g = RemoveFirst(@, transaction_id),
                            !.popped = Append(@, transaction_id)]
        IN  IF Fails(c1) THEN CallRaises(c1, "transactions_get", "PlaidError")
            ELSE
                LET c2 == Call(c1)
                    tx_attrs == _get_tx_attributes(c.env, transaction_id)
                IN  IF ~tx_attrs.found
                    THEN SelfCall(
                            [Commit(c2) EXCEPT !.skipped = Append(@, transaction_id),
                                               !.inOrder = @ /\ oldest])
                    ELSE
                        LET c3 == Commit(MarkReconciling(c2, transaction_id))
                        IN  IF Fails(c3) THEN CallRaises(c3, "messages.create", "TwilioError")
                            ELSE [Call(c3) EXCEPT
                                    !.sms = Append(@, PromptMessage(tx_attrs)),
                                    !.prompted = Append(@, transaction_id),
                                    !.inOrder = @ /\ oldest]
    ELSE
        IF Fails(c)
        THEN OnSyncError(
                [CallRaises(c, "transactions_sync", "PlaidError") EXCEPT
                    !.feedError = c.error_msg])
        ELSE
            LET response == transactions_sync(c.env, c.mem.plaid_cursor)
                new_transactions == response.added
                c1 == [Call(c) EXCEPT !.env.redeliver = 0, !.feeds = @ + 1]
            IN  IF new_transactions # <<>> THEN
                    LET c2 == Commit(
                            [c1 EXCEPT
                                !.mem.transaction_queue = QueueExtend(@, new_transactions),
                                !.mem.plaid_cursor = response.next_cursor,
                                !.g = @ \o new_transactions,
                                !.enq = @ \o new_transactions])
                        c3 == SelfCall(c2)
                    IN  IF c3.exc # "" THEN OnSyncError(c3) ELSE c3
                ELSE IF response.next_cursor # 0
                THEN Commit([c1 EXCEPT !.mem.plaid_cursor = response.next_cursor])
                ELSE c1

\* ------------------------------------------------------------------ handle_sms
\* inbound texts that are tried
Bodies == {"correct", "status", "balance", "banana", "3", "$3", "-3",
           "3,general_merchandise"}

\* message_body.strip("$")
StripDollar(b) == IF b = "$3" THEN "3" ELSE b

\* a float() that takes any text for a number
FloatTableLenient ==
    [b \in {"3", "-3", "banana"} |-> IF b = "3" THEN 3 ELSE IF b = "-3" THEN 0 - 3 ELSE 0]

\* float(message_body) where it does not raise ValueError
FloatTable == [b \in {"3", "-3"} |-> IF b = "3" THEN 3 ELSE 0 - 3]

_valid_float(message_body) == message_body \in DOMAIN FloatTable

Reply(c, text) == [c EXCEPT !.reply = text]

\* lines 248-261: roll the month over if the transaction is dated in another
\* month, add the amount to the category's spend, clear the awaited id,
\* commit, and go on with the queue
Confirm(c, tx_attributes, amount) ==
    IF ~tx_attributes.found THEN Raise(c, "TypeError")
    ELSE
        LET tx_month == MonthStart(tx_attributes.date)
            roll == c.mem.current_month = None \/ c.mem.current_month # tx_month
            c1 == IF roll
                  THEN [_clear_monthly_spending(c) EXCEPT
                            !.mem.current_month = tx_month, !.rollover = TRUE]
                  ELSE c
            category == tx_attributes.category
        IN  IF category \notin Categories THEN Raise(c1, "AttributeError")
            ELSE
                LET curr_amount == PyAdd(c1.mem.monthly_spending[category], amount)
                    c1a == [c1 EXCEPT !.offered = Append(@, amount[2])]
                IN  IF curr_amount[1] = "TypeError" THEN Raise(c1a, "TypeError")
                    ELSE
                        LET c2 == Commit(
                                [c1a EXCEPT
                                    !.mem.monthly_spending[category] = Numeric(curr_amount),
                                    !.mem.current_reconciling_tx_id = None,
                                    !.confirmed = Append(@, tx_attributes.transaction_id)])
                            c3 == sync_single_user(c2)
                        IN  IF c3.exc # "" THEN c3
                            ELSE Reply(c3, "Transaction confirmed!")

\* the "balance" branch: the categories with spending_val > 0
Balance(c) ==
    LET categories_with_spending ==
            {f \in Categories : OrZero(c.mem.monthly_spending[f]) > 0}
    IN  IF categories_with_spending = {}
        THEN Reply(c, "No spending this month yet!")
        ELSE [Reply(c, "Budget Status") EXCEPT !.listed = categories_with_spending]

\* the text an idle user gets for anything but "balance"
HelpText == "Text 'balance' to see your budget status"

\* every text taken for "balance"
CommandAlwaysBalance(c, message_body) == Balance(c)

\* lines 263-319: the commands of an idle user
Command(c, message_body) ==
    IF message_body = "balance" THEN Balance(c) ELSE Reply(c, HelpText)

handle_sms(c, body) ==
    LET user == c.mem
        message_body == StripDollar(body)
    IN  IF ~user.exists THEN Raise(c, "AttributeError")
        ELSE IF IsReconciling(user) THEN
            IF Fails(c) THEN CallRaises(c, "transactions_get", "PlaidError")
            ELSE
                LET c1 == Call(c)
                    tx_attributes ==
                        _get_tx_attributes(c.env, user.current_reconciling_tx_id)
                IN  IF message_body = "status"
                    THEN Reply(c1, "Finishing reconciling before you can see your budget status!")
                    ELSE IF message_body = "correct"
                    THEN Confirm(c1, tx_attributes, tx_attributes.amount)
                    ELSE IF _valid_float(message_body)
                    THEN Confirm(c1, tx_attributes, Flt(FloatTable[message_body]))
                    ELSE Reply(c1, "Please respond with 'correct' or a valid amount")
        ELSE Command(c, message_body)

\* ------------------------------------------------ connect_bank, update_budget
ConnectedMessage == [kind |-> "connected", tx |-> None, category |-> "", amount |-> 0]

\* a re-link that starts the user's row afresh
connect_bank_fresh_row(c, exchange_response) ==
    LET c1 == Commit([c EXCEPT
                        !.mem = [NoUser EXCEPT
                            !.exists = TRUE,
                            !.plaid_access_token = exchange_response.access_token,
                            !.plaid_item_id = exchange_response.item_id]])
    IN  IF Fails(c1) THEN CallRaises(c1, "messages.create", "TwilioError")
        ELSE [Call(c1) EXCEPT !.sms = Append(@, ConnectedMessage)]

connect_bank(c, exchange_response) ==
    LET cleared == [f \in Categories |-> NoneVal]
        c0 == IF ~c.mem.exists
              THEN [c EXCEPT !.mem = [NoUser EXCEPT !.exists = TRUE]]
              ELSE [c EXCEPT !.mem.budgets = cleared,
                             !.mem.monthly_spending = cleared]
        c1 == Commit([c0 EXCEPT
                        !.mem.plaid_access_token = exchange_response.access_token,
                        !.mem.plaid_item_id = exchange_response.item_id,
                        !.mem.plaid_cursor = 0])
    IN  IF Fails(c1) THEN CallRaises(c1, "messages.create", "TwilioError")
        ELSE [Call(c1) EXCEPT !.sms = Append(@, ConnectedMessage)]

\* get_budget_data: the limits and the spend per category, None read as 0.0
get_budget_data(c) ==
    IF ~c.mem.exists THEN Raise(c, "AttributeError")
    ELSE [c EXCEPT !.returned =
            <<[f \in Categories |-> OrZero(c.mem.budgets[f])],
              [f \in Categories |-> OrZero(c.mem.monthly_spending[f])]>>]

\* budget limits a request may carry
BudgetUpdates ==
    UNION {[fields -> {Flt(50)}] : fields \in (SUBSET Categories) \ {{}}}

\* an update that writes every limit, None where the request names none
update_budget_every_field(c, budget_updates) ==
    IF ~c.mem.exists THEN Raise(c, "AttributeError")
    ELSE Commit([c EXCEPT !.named = DOMAIN budget_updates,
                          !.mem.budgets =
                    [f \in Categories |->
                        IF f \in DOMAIN budget_updates
                        THEN Numeric(budget_updates[f]) ELSE NoneVal]])

update_budget(c, budget_updates) ==
    IF ~c.mem.exists THEN Raise(c, "AttributeError")
    ELSE Commit([c EXCEPT !.named = DOMAIN budget_updates,
                          !.mem.budgets =
                    [f \in Categories |->
                        IF f \in DOMAIN budget_updates
                        THEN Numeric(budget_updates[f]) ELSE @[f]]])

\* plaid_webhook: the user owning item_id, if any, is synced
plaid_webhook(c, item_id) ==
    IF c.mem.exists /\ c.mem.plaid_item_id = item_id
    THEN sync_single_user(c)
    ELSE c

\* ----------------------------------------------------------------- the state
VARIABLES
    db,     \* db[p]: the committed row of the user with phone number p
    bank,   \* bank[p]: the provider's side of p's account, and the store's
            \* treatment of p's queue column
    fifo,   \* fifo[p]: ids waiting, in the order they were enqueued (observer)
    hist,   \* hist[p]: ids prompted so far, and those prompted and not confirmed
    last,   \* what the last step did
    sess,   \* sess[x]: the request x in flight when requests overlap
    start,  \* the row and the account when the first overlapping request began
    sched   \* the scheduler's timer, its pass, and the passes of inbound "sync"

vars == <<db, bank, fifo, hist, last, sess, start, sched>>

\* two requests for the same user that may overlap
Procs == {"A", "B"}

NoRequest ==
    [pc |-> "idle", op |-> "", body |-> "", row |-> NoUser, prompted |-> <<>>]

NoStart ==
    [row |-> NoUser, env |-> [feedLen |-> 0, redeliver |-> 0, expired |-> 0, tracked |-> TRUE],
     g |-> <<>>]

Range(s) == {s[i] : i \in DOMAIN s}

\* no scheduler: nothing armed, no pass under way, no text being handled
NoSched ==
    [timer |-> "unset", serving |-> FALSE, tick |-> 0,
     req |-> [x \in Procs |->
                [from_number |-> "", body |-> "", at |-> 0, response |-> ""]]]

NoStep ==
    [op |-> "init", phone |-> "", body |-> "", item |-> "",
     exc |-> "", reply |-> "", listed |-> {}, sms |-> <<>>,
     enq |-> <<>>, popped |-> <<>>, skipped |-> <<>>, prompted |-> <<>>,
     confirmed |-> <<>>, feeds |-> 0, errors |-> 0,
     rollover |-> FALSE, inOrder |-> TRUE, extfail |-> FALSE, reenq |-> {},
     failed |-> "", error_msg |-> "", feedError |-> "", logged |-> "",
     synced |-> <<>>, offered |-> <<>>, named |-> {}, returned |-> <<>>,
     depth |-> 0]

\* rows an existing database may hold when the process starts: a linked user
\* who is idle with nothing queued, one who is idle with transactions 1 and
\* 2 queued, or one for whom transaction 1, or transaction 3 whose category
\* is none of the columns, is being reconciled
InitSpending ==
    {[f \in Categories |-> NoneVal],
     [f \in Categories |-> IF f = "food_and_drink" THEN Dec(40) ELSE NoneVal]}

Linked ==
    [NoUser EXCEPT !.exists = TRUE, !.plaid_access_token = "access-1",
                   !.plaid_item_id = "item-1"]

Snapshots ==
    {[delivered |-> 0, tx |-> None, queue |-> <<>>],
     [delivered |-> 2, tx |-> None, queue |-> <<1, 2>>],
     [delivered |-> 1, tx |-> 1, queue |-> <<>>],
     [delivered |-> 3, tx |-> 3, queue |-> <<>>]}

Init ==
    /\ \E snap \in Snapshots, month \in {None, 101, 201}, spending \in InitSpending :
          /\ snap.tx # None \/ month = 101
          /\ snap.tx # 3 \/ month = MonthStart(TxDate(3))
          /\ snap.queue = <<>> \/ spending \in {[f \in Categories |-> NoneVal]}
          /\ db = [p \in Phones |->
                    [Linked EXCEPT
                        !.plaid_cursor = snap.delivered,
                        !.current_reconciling_tx_id = snap.tx,
                        !.transaction_queue = snap.queue,
                        !.current_month = month,
                        !.monthly_spending = spending]]
          /\ bank = [p \in Phones |->
                    [feedLen |-> snap.delivered, redeliver |-> 0, expired |-> 0, tracked |-> TRUE]]
          /\ fifo = [p \in Phones |-> snap.queue]
    /\ hist = [p \in Phones |-> [prompted |-> {}, open |-> {}]]
    /\ last = NoStep
    /\ sess = [x \in Procs |-> NoRequest]
    /\ start = NoStart
    /\ sched = NoSched

\* the ids prompted for p, after a handler that ran as c
HistAfter(p, c) ==
    [prompted |-> hist[p].prompted \cup Range(c.prompted),
     open |-> (hist[p].open \cup Range(c.prompted)) \ Range(c.confirmed)]

\* what a handler that ran as c for user p did
StepRecord(p, op, body, item, c) ==
        [op |-> op, phone |-> p, body |-> body, item |-> item,
         exc |-> c.exc, reply |-> c.reply, listed |-> c.listed, sms |-> c.sms,
         enq |-> c.enq, popped |-> c.popped, skipped |-> c.skipped,
         prompted |-> c.prompted, confirmed |-> c.confirmed,
         feeds |-> c.feeds, errors |-> c.errors,
         rollover |-> c.rollover, inOrder |-> c.inOrder, extfail |-> c.extfail,
         reenq |-> Range(c.enq) \cap
                    (hist[p].prompted \cup {db[p].current_reconciling_tx_id}),
         failed |-> c.failed,
         error_msg |-> IF c.extfail THEN c.error_msg ELSE "",
         feedError |-> c.feedError, logged |-> c.logged,
         synced |-> <<>>, offered |-> c.offered, named |-> c.named,
         returned |-> c.returned, depth |-> c.depth]

\* the state after a handler that ran as c for user p
Effect(p, op, body, item, c) ==
    /\ db' = [db EXCEPT ![p] = c.db]
    /\ bank' = [bank EXCEPT ![p] = c.env]
    /\ fifo' = [fifo EXCEPT ![p] = c.gdb]
    /\ hist' = [hist EXCEPT ![p] = HistAfter(p, c)]
    /\ last' = StepRecord(p, op, body, item, c)

\* a handler that runs alone
Finish(p, op, body, item, c) ==
    /\ Effect(p, op, body, item, c)
    /\ UNCHANGED <<sess, start, sched>>

Start(p, failAt) == Ctx(db[p], fifo[p], bank[p], failAt)

\* the handler starts, and the call that raises, if any, raises error_msg
StartWith(p, failAt, error_msg) ==
    [Start(p, failAt) EXCEPT !.error_msg = error_msg]

\* the failures a handler is run with: no call raises, the failAt-th call
\* raises a passing error, or the credential is invalid and the first call
\* made with it raises
Failures ==
    {[failAt |-> 0, error_msg |-> ""]}
        \cup [failAt : 1..MaxCalls, error_msg : {"RATE_LIMIT_EXCEEDED"}]
        \cup [failAt : {1}, error_msg : ErrorMessages \ {"RATE_LIMIT_EXCEEDED"}]

\* the failures to run a handler with: a handler that makes no external
\* call runs the same under each of them, so it is run once
FailuresIf(calls) == IF calls THEN Failures ELSE {[failAt |-> 0, error_msg |-> ""]}

\* phone numbers in the order of the users' ids
UserOrder == <<"u1", "u2">>

\* User.query.all()
AllUsers(rows) ==
    SelectSeq(UserOrder, LAMBDA p : p \in DOMAIN rows /\ rows[p].exists)

\* for user in users: sync_single_user(user), where the calls made for u
\* meet the failure fail[u]: the users it was called for, in order, each
\* with what the call did.  An exception that leaves sync_single_user ends
\* the loop.
RECURSIVE SyncLoop(_, _)
SyncLoop(users, fail) ==
    IF users = <<>> THEN <<>>
    ELSE
        LET u == Head(users)
            c == sync_single_user(StartWith(u, fail[u].failAt, fail[u].error_msg))
        IN  IF c.exc # "" THEN <<[phone |-> u, c |-> c]>>
            ELSE <<[phone |-> u, c |-> c]>> \o SyncLoop(Tail(users), fail)

\* the state after a pass of sync_all_users that went as synced
SyncAllEffect(synced) ==
    LET Ran(u) == \E i \in DOMAIN synced : synced[i].phone = u
        Run(u) == synced[CHOOSE i \in DOMAIN synced : synced[i].phone = u].c
        end == synced[Len(synced)]
    IN  /\ synced # <<>>
        /\ db' = [u \in DOMAIN db |-> IF Ran(u) THEN Run(u).db ELSE db[u]]
        /\ bank' = [u \in DOMAIN db |-> IF Ran(u) THEN Run(u).env ELSE bank[u]]
        /\ fifo' = [u \in DOMAIN db |-> IF Ran(u) THEN Run(u).gdb ELSE fifo[u]]
        /\ hist' = [u \in DOMAIN db |->
                    IF Ran(u) THEN HistAfter(u, Run(u)) ELSE hist[u]]
        /\ last' = [StepRecord(end.phone, "sync_all_users", "", "", end.c) EXCEPT
                        !.synced = [i \in DOMAIN synced |-> synced[i].phone]]
        /\ UNCHANGED <<sess, start, sched>>

\* sync_all_users
SyncAllUsers ==
    \E fail \in [DOMAIN db -> Failures] :
        /\ \A u \in DOMAIN db :
                fail[u] \in FailuresIf(db[u].exists /\ ~IsReconciling(db[u]))
        /\ SyncAllEffect(SyncLoop(AllUsers(db), fail))

\* the provider's webhook for an item
PlaidWebhook ==
    \E p \in Phones, item_id \in {"item-1", "item-9"} :
      \E f \in FailuresIf(db[p].plaid_item_id = item_id /\ ~IsReconciling(db[p])) :
        Finish(p, "plaid_webhook", "", item_id,
               plaid_webhook(StartWith(p, f.failAt, f.error_msg), item_id))

\* an inbound text
HandleSms ==
    \E p \in Phones, body \in Bodies :
      \E f \in FailuresIf(db[p].exists /\ IsReconciling(db[p])) :
        Finish(p, "handle_sms", body, "",
               handle_sms(StartWith(p, f.failAt, f.error_msg), body))

ConnectBank ==
    \E p \in Phones, failAt \in 0..1 :
        Finish(p, "connect_bank", "", "",
               connect_bank(Start(p, failAt),
                            [access_token |-> "access-1", item_id |-> "item-1"]))

UpdateBudget ==
    \E p \in Phones, budget_updates \in BudgetUpdates :
        Finish(p, "update_budget", "", "",
               update_budget(Start(p, 0), budget_updates))

GetBudgetData ==
    \E p \in Phones :
        Finish(p, "get_budget_data", "", "", get_budget_data(Start(p, 0)))

\* ----------------------------------------------------------- the environment
EnvStep(p, what) == [NoStep EXCEPT !.op = what, !.phone = p]

\* a transaction is posted to the account
NewTransaction ==
    \E p \in DOMAIN bank :
        /\ bank[p].feedLen < MaxTx
        /\ bank' = [bank EXCEPT ![p].feedLen = @ + 1]
        /\ last' = EnvStep(p, "new_transaction")
        /\ UNCHANGED <<db, fifo, hist, sess, start, sched>>

\* the provider will repeat ids it already delivered in its next response
RetryOverlap ==
    \E p \in Phones, n \in 1..MaxOverlap :
        /\ bank[p].redeliver = 0
        /\ bank' = [bank EXCEPT ![p].redeliver = n]
        /\ last' = EnvStep(p, "retry_overlap")
        /\ UNCHANGED <<db, fifo, hist, sess, start, sched>>

\* the oldest transaction still listed leaves the 30 days that
\* transactions_get is asked for
TransactionExpires ==
    \E p \in DOMAIN bank :
        /\ bank[p].expired < bank[p].feedLen
        /\ bank' = [bank EXCEPT ![p].expired = @ + 1]
        /\ last' = EnvStep(p, "transaction_expires")
        /\ UNCHANGED <<db, fifo, hist, sess, start, sched>>

Next ==
    \/ SyncAllUsers
    \/ PlaidWebhook
    \/ HandleSms
    \/ ConnectBank
    \/ UpdateBudget
    \/ GetBudgetData
    \/ NewTransaction
    \/ RetryOverlap
    \/ TransactionExpires

Spec == Init /\ [][Next]_vars

\* ------------------------------------------------------------- several users
\* Two linked users, u1 before u2 in the users table; the scheduler's pass
\* and the provider's side are what moves.
LinkedUsers ==
    [u1 |-> Linked,
     u2 |-> [Linked EXCEPT !.plaid_access_token = "access-2",
                           !.plaid_item_id = "item-2"]]

InitAll ==
    /\ \E snap \in {x \in Snapshots : x.tx = None} :
          /\ db = [p \in DOMAIN LinkedUsers |->
                    IF p = "u1"
                    THEN [LinkedUsers[p] EXCEPT
                            !.plaid_cursor = snap.delivered,
                            !.transaction_queue = snap.queue,
                            !.current_month = 101]
                    ELSE [LinkedUsers[p] EXCEPT !.current_month = 101]]
          /\ bank = [p \in DOMAIN LinkedUsers |->
                    [feedLen |-> IF p = "u1" THEN snap.delivered ELSE 0,
                     redeliver |-> 0, expired |-> 0, tracked |-> TRUE]]
          /\ fifo = [p \in DOMAIN LinkedUsers |->
                    IF p = "u1" THEN snap.queue ELSE <<>>]
    /\ hist = [p \in DOMAIN LinkedUsers |-> [prompted |-> {}, open |-> {}]]
    /\ last = NoStep
    /\ sess = [x \in Procs |-> NoRequest]
    /\ start = NoStart
    /\ sched = NoSched

NextAll ==
    \/ SyncAllUsers
    \/ NewTransaction

SpecAll == InitAll /\ [][NextAll]_vars

\* ------------------------------------------------------------- the webhook
\* a lookup that ignores the item id: the first user
GetUserFirst(rows, item_id) ==
    IF AllUsers(rows) = <<>> THEN "" ELSE Head(AllUsers(rows))

\* _get_user(plaid_item_id=item_id): filter_by(...).first(), the phone
\* number of the first user with that item id, "" for None
_get_user(rows, item_id) ==
    LET found == SelectSeq(AllUsers(rows), LAMBDA p : rows[p].plaid_item_id = item_id)
    IN  IF found = <<>> THEN "" ELSE Head(found)

\* item ids a webhook may carry: those of the two users, one of no user,
\* and none
ItemIds == {"item-1", "item-2", "item-9", ""}

\* plaid_webhook(item_id) on the users table: without an item id _get_user
\* raises ValueError, without a user of that item nothing is done, else
\* that user is synced (and the first call made for that user may raise)
WebhookArrives ==
    \E item_id \in ItemIds :
        LET p == _get_user(db, item_id)
        IN  IF item_id = "" \/ p = ""
            THEN /\ last' = [NoStep EXCEPT
                                !.op = "plaid_webhook", !.item = item_id,
                                !.exc = IF item_id = "" THEN "ValueError" ELSE ""]
                 /\ UNCHANGED <<db, bank, fifo, hist, sess, start, sched>>
            ELSE \E f \in {x \in FailuresIf(~IsReconciling(db[p])) : x.failAt <= 1} :
                    LET c == plaid_webhook(StartWith(p, f.failAt, f.error_msg), item_id)
                    IN  /\ db' = [db EXCEPT ![p] = c.db]
                        /\ bank' = [bank EXCEPT ![p] = c.env]
                        /\ fifo' = [fifo EXCEPT ![p] = c.gdb]
                        /\ hist' = [hist EXCEPT ![p] = HistAfter(p, c)]
                        /\ last' = [StepRecord(p, "plaid_webhook", "", item_id, c)
                                        EXCEPT !.synced = <<p>>]
                        /\ UNCHANGED <<sess, start, sched>>

NextHook ==
    \/ WebhookArrives
    \/ NewTransaction

SpecHook == InitAll /\ [][NextHook]_vars

\* ------------------------------------------------- the queue column as declared
\* transaction_queue is declared db.JSON (database.py:29), a type whose
\* values the session does not watch for changes in place.  logic.py
\* changes the queue in place only, so the stored queue of a user stays the
\* empty list the row was inserted with.
InitJson ==
    /\ \E spending \in InitSpending :
          db = [p \in Phones |->
                    [Linked EXCEPT !.current_month = 101,
                                   !.monthly_spending = spending]]
    /\ bank = [p \in Phones |->
                [feedLen |-> 0, redeliver |-> 0, expired |-> 0, tracked |-> FALSE]]
    /\ fifo = [p \in Phones |-> <<>>]
    /\ hist = [p \in Phones |-> [prompted |-> {}, open |-> {}]]
    /\ last = NoStep
    /\ sess = [x \in Procs |-> NoRequest]
    /\ start = NoStart
    /\ sched = NoSched

SpecJson == InitJson /\ [][Next]_vars

\* ------------------------------------------------------------- syncing only
\* The handlers that call sync_single_user or move the cursor, and the
\* provider: what the queue, the cursor and the feed can come to without
\* inbound texts and budget requests.
NextSync ==
    \/ SyncAllUsers
    \/ PlaidWebhook
    \/ ConnectBank
    \/ NewTransaction
    \/ RetryOverlap
    \/ TransactionExpires

SpecSync == Init /\ [][NextSync]_vars

\* ------------------------------------------------------------------ re-linking
\* what the token exchange may return: the credential and item the user
\* has, or those of a new link
ExchangeResponses ==
    {[access_token |-> "access-1", item_id |-> "item-1"],
     [access_token |-> "access-2", item_id |-> "item-2"]}

\* connect_bank with what the exchange returned; the message that follows
\* the commit may fail
Relink ==
    \E p \in Phones, failAt \in 0..1, exchange_response \in ExchangeResponses :
        Finish(p, "connect_bank", exchange_response.access_token,
               exchange_response.item_id,
               connect_bank(Start(p, failAt), exchange_response))

NextLink ==
    \/ Relink
    \/ UpdateBudget
    \/ SyncAllUsers
    \/ NewTransaction

SpecLink == Init /\ [][NextLink]_vars

\* ------------------------------------------------------------------ progress
\* The program with the scheduling that progress is claimed under: sync
\* passes in which no call raises keep coming, and the user keeps sending
\* the confirming reply "correct", which no call fails.
NoFailure == [failAt |-> 0, error_msg |-> ""]

\* a pass of sync_all_users in which no call raises
SyncTick ==
    \E synced \in {SyncLoop(AllUsers(db), [u \in DOMAIN db |-> NoFailure])} :
        SyncAllEffect(synced)

\* a pass of sync_all_users in which the first call made for a user raises
SyncTickFails ==
    \E f \in Failures :
        /\ f.failAt = 1
        /\ SyncAllEffect(SyncLoop(AllUsers(db), [u \in DOMAIN db |-> f]))

\* the user texts "correct"
ConfirmingReply ==
    \E p \in Phones :
      \E c \in {handle_sms(StartWith(p, 0, ""), "correct")} :
        Finish(p, "handle_sms", "correct", "", c)

NextLive ==
    \/ SyncTick
    \/ SyncTickFails
    \/ ConfirmingReply
    \/ NewTransaction
    \/ TransactionExpires

SpecLive ==
    /\ Init
    /\ [][NextLive]_vars
    /\ WF_vars(SyncTick)
    /\ WF_vars(ConfirmingReply)

\* -------------------------------------------------------------- the scheduler
\* src/app.py: run_sync_scheduler runs a pass over all users and then arms
\* a one-hour Timer for the next run; it is called once while the module
\* loads, before any request is served.  The inbound text "sync" runs a
\* pass in the thread of its request.  A pass is the loop of
\* utils.sync_all_users: `at` (tick for the scheduler) is the position of
\* the user that is synced next, 0 when no pass is under way.  What
\* sync_user_transactions does to a user is left out; it swallows its
\* exceptions.
SmsTexts == {"sync", " Sync", "balance", "status", "recent", "pending", "help", "banana"}

\* request.form.get("Body", "").strip().lower()
StripLower(b) == IF b = " Sync" THEN "sync" ELSE b

\* the reply of app.handle_sms to a command other than "sync"
CommandResponse(message_body) ==
    IF message_body \in {"balance", "status"} THEN "budget status"
    ELSE IF message_body = "recent" THEN "recent transactions"
    ELSE IF message_body = "pending" THEN "pending transactions"
    ELSE IF message_body = "help" THEN "SpendPal SMS Commands"
    ELSE "Unknown command. Text 'help' for available commands."

\* User.query.filter(User.plaid_access_token.isnot(None)).all()
UsersWithToken == AllUsers(db)

\* the position after sync_user_transactions for the user at position at:
\* the next user, or 0 after the last one
NextUser(at) == IF at < Len(UsersWithToken) THEN at + 1 ELSE 0

InitSched ==
    /\ db = [p \in DOMAIN LinkedUsers |-> [LinkedUsers[p] EXCEPT !.current_month = 101]]
    /\ bank = [p \in DOMAIN LinkedUsers |-> [feedLen |-> 0, redeliver |-> 0, expired |-> 0, tracked |-> TRUE]]
    /\ fifo = [p \in DOMAIN LinkedUsers |-> <<>>]
    /\ hist = [p \in DOMAIN LinkedUsers |-> [prompted |-> {}, open |-> {}]]
    /\ last = NoStep
    /\ sess = [x \in Procs |-> NoRequest]
    /\ start = NoStart
    /\ sched = [NoSched EXCEPT !.tick = 1]

\* the pass of run_sync_scheduler syncs its next user; after the last one
\* Timer(3600, run_sync_scheduler).start(), and the module goes on to serve
SchedulerSyncsUser ==
    /\ sched.tick # 0
    /\ sched' = IF NextUser(sched.tick) # 0
                THEN [sched EXCEPT !.tick = NextUser(sched.tick)]
                ELSE [sched EXCEPT !.tick = 0, !.timer = "armed", !.serving = TRUE]
    /\ UNCHANGED <<db, bank, fifo, hist, last, sess, start>>

\* the Timer expires and its thread calls run_sync_scheduler
TimerFires ==
    /\ sched.timer = "armed"
    /\ sched' = [sched EXCEPT !.timer = "unset", !.tick = 1]
    /\ UNCHANGED <<db, bank, fifo, hist, last, sess, start>>

\* app.handle_sms in the thread of request x: a request without a sender is
\* turned down, "sync" starts a pass, any other text is answered at once
SmsArrives ==
    \E x \in Procs, from_number \in DOMAIN db \cup {""}, body \in SmsTexts :
        /\ sched.serving
        /\ sched.req[x].at = 0
        /\ sched' = [sched EXCEPT !.req[x] =
                        IF from_number = ""
                        THEN [from_number |-> from_number, body |-> body, at |-> 0,
                              response |-> "Invalid request"]
                        ELSE IF StripLower(body) = "sync"
                        THEN [from_number |-> from_number, body |-> body, at |-> 1,
                              response |-> ""]
                        ELSE [from_number |-> from_number, body |-> body, at |-> 0,
                              response |-> CommandResponse(StripLower(body))]]
        /\ UNCHANGED <<db, bank, fifo, hist, last, sess, start>>

\* the pass of an inbound "sync" syncs its next user; after the last one the
\* request is answered
SmsSyncsUser ==
    \E x \in Procs :
        /\ sched.req[x].at # 0
        /\ sched' = [sched EXCEPT !.req[x] =
                        IF NextUser(sched.req[x].at) # 0
                        THEN [@ EXCEPT !.at = NextUser(sched.req[x].at)]
                        ELSE [@ EXCEPT !.at = 0,
                                       !.response = "Syncing transactions... Check back in a few minutes!"]]
        /\ UNCHANGED <<db, bank, fifo, hist, last, sess, start>>

NextSched ==
    \/ SchedulerSyncsUser
    \/ TimerFires
    \/ SmsArrives
    \/ SmsSyncsUser

SpecSched == InitSched /\ [][NextSched]_vars

\* ------------------------------------------------------ overlapping requests
\* Requests are served without any per-user lock (no lock, SELECT ... FOR
\* UPDATE or version column in logic.py): each request reads the user row
\* into its own session (_get_user) and later runs on that copy.  The two
\* steps of a request are taken as atomic here, which leaves out finer
\* interleavings but adds none.
Requests ==
    {[op |-> "plaid_webhook", body |-> ""],
     [op |-> "handle_sms", body |-> "correct"],
     [op |-> "handle_sms", body |-> "banana"]}

RunRequest(r, c) ==
    IF r.op = "handle_sms" THEN handle_sms(c, r.body)
    ELSE plaid_webhook(c, "item-1")

NoneBegan == \A x \in Procs : sess[x].pc = "idle"

\* _get_user: the request's session reads the row
ConcLoad ==
    \E p \in Phones, x \in Procs, r \in Requests :
        /\ sess[x].pc = "idle"
        /\ sess' = [sess EXCEPT ![x] =
                        [NoRequest EXCEPT !.pc = "loaded", !.op = r.op,
                                          !.body = r.body, !.row = db[p]]]
        /\ start' = IF NoneBegan
                    THEN [row |-> db[p], env |-> bank[p], g |-> fifo[p]]
                    ELSE start
        /\ UNCHANGED <<db, bank, fifo, hist, last, sched>>

\* the rest of the request, on the copy it read
ConcRun ==
    \E p \in Phones, x \in Procs :
        /\ sess[x].pc = "loaded"
        /\ LET c == RunRequest(sess[x],
                               Session(sess[x].row, db[p], fifo[p], bank[p], 0))
           IN  /\ Effect(p, sess[x].op, sess[x].body, "item-1", c)
               /\ sess' = [sess EXCEPT ![x].pc = "done",
                                       ![x].prompted = c.prompted]
        /\ UNCHANGED <<start, sched>>

NextConc ==
    \/ ConcLoad
    \/ ConcRun
    \/ NoneBegan /\ NewTransaction
    \/ NoneBegan /\ RetryOverlap
    \/ NoneBegan /\ TransactionExpires

SpecConc == Init /\ [][NextConc]_vars

\* the two requests run one after the other, x first
Serial(x, y) ==
    LET c1 == RunRequest(sess[x], Ctx(start.row, start.g, start.env, 0))
        c2 == RunRequest(sess[y], Ctx(c1.db, c1.gdb, c1.env, 0))
    IN  [row |-> c2.db, first |-> c1.prompted, second |-> c2.prompted]

\* ------------------------------------------------------------------ claims
\* a step in which sync_single_user ran for p (scheduler pass, or the webhook
\* of p's item)
SyncStep(p) ==
    /\ last'.phone = p
    /\ \/ last'.op = "sync_all_users"
       \/ last'.op = "plaid_webhook" /\ last'.item = db[p].plaid_item_id

\* sync_single_user ran for p in the step that led here
SyncRan(p) ==
    /\ last.phone = p
    /\ \/ last.op = "sync_all_users"
       \/ last.op = "plaid_webhook" /\ last.item = db[p].plaid_item_id

Fetchable(p, t) == _get_tx_attributes(bank[p], t).found

NoDuplicates(q) == Cardinality(Range(q)) = Len(q)

\* C1: a sync pass for an idle user whose queue head can be fetched removes
\* the head, sends one prompt, and leaves current_reconciling_tx_id equal to
\* the popped id.
C1_PromptSetsAwaiting ==
    [][\A p \in Phones :
        (/\ SyncStep(p)
         /\ db[p].current_reconciling_tx_id = None
         /\ db[p].transaction_queue # <<>>
         /\ Fetchable(p, Head(db[p].transaction_queue))
         /\ ~last'.extfail)
        => (/\ db'[p].transaction_queue = Tail(db[p].transaction_queue)
            /\ Len(last'.sms) = 1
            /\ db'[p].current_reconciling_tx_id = Head(db[p].transaction_queue))]_vars

\* C2: after a sync pass that found exactly one new transaction, of category
\* c and magnitude m and dated in the stored month, and prompted for it, the
\* reply "correct" ends with spent[c] = old spent[c] + m, the queue empty
\* and the user idle.
C2_ScenarioA ==
    [][\A p \in Phones : \A t \in 1..MaxTx :
        (/\ SyncRan(p) /\ ~last.extfail
         /\ last.enq = <<t>> /\ last.prompted = <<t>>
         /\ MonthStart(TxDate(t)) = db[p].current_month
         /\ _get_tx_attributes(bank[p], t).category \in Categories
         /\ last'.op = "handle_sms" /\ last'.phone = p /\ last'.body = "correct"
         /\ ~last'.extfail)
        => LET c == _get_tx_attributes(bank[p], t).category
           IN  /\ OrZero(db'[p].monthly_spending[c])
                    = OrZero(db[p].monthly_spending[c]) + Abs(TxAmount(t))
               /\ db'[p].transaction_queue = <<>>
               /\ db'[p].current_reconciling_tx_id = None]_vars

C4_NoDoubleEnqueue == \A p \in Phones : NoDuplicates(db[p].transaction_queue)

\* an id that had been prompted before was delivered again and waits in the
\* queue
C4_Witness ==
    \E p \in Phones :
        /\ SyncRan(p)
        /\ last.reenq \cap Range(db[p].transaction_queue) # {}

C6_SpendMonotonic ==
    [][\A p \in Phones : \A f \in Categories :
        (last'.op # "connect_bank" /\ ~last'.rollover)
        => OrZero(db'[p].monthly_spending[f]) >= OrZero(db[p].monthly_spending[f])]_vars

C10_RolloverConfirm ==
    [][\A p \in Phones :
        LET t == db[p].current_reconciling_tx_id
            attrs == _get_tx_attributes(bank[p], t)
        IN  (/\ last'.op = "handle_sms" /\ last'.phone = p
             /\ last'.body = "correct"
             /\ t # None /\ attrs.found /\ attrs.category \in Categories
             /\ db[p].current_month # None
             /\ MonthStart(attrs.date) # db[p].current_month
             /\ \E f \in Categories : OrZero(db[p].monthly_spending[f]) # 0
             /\ ~last'.extfail)
            => (/\ last'.exc = ""
                /\ \A f \in Categories :
                        OrZero(db'[p].monthly_spending[f])
                            = IF f = attrs.category THEN attrs.amount[2] ELSE 0
                /\ db'[p].current_month = MonthStart(attrs.date)
                /\ db'[p].current_reconciling_tx_id = None)]_vars
InvalidReplyText == "Please respond with 'correct' or a valid amount"

C12_ScenarioB ==
    [][\A p \in Phones :
        LET t == db[p].current_reconciling_tx_id
            attrs == _get_tx_attributes(bank[p], t)
        IN  (/\ last'.op = "handle_sms" /\ last'.phone = p
             /\ last'.body = "3,general_merchandise"
             /\ t # None /\ attrs.found
             /\ attrs.category \in Categories \ {"general_merchandise"}
             /\ MonthStart(attrs.date) = db[p].current_month
             /\ ~last'.extfail)
            => (/\ OrZero(db'[p].monthly_spending["general_merchandise"])
                    = OrZero(db[p].monthly_spending["general_merchandise"]) + 3
                /\ db'[p].monthly_spending[attrs.category]
                    = db[p].monthly_spending[attrs.category]
                /\ db'[p].current_reconciling_tx_id = None)]_vars

\* C13: a sync pass for a user with an awaited transaction does nothing: no
\* feed call, no message, and the row and the provider's side are as before.
C13_SyncNoOpWhileAwaiting ==
    [][\A p \in Phones :
        (SyncStep(p) /\ db[p].current_reconciling_tx_id # None)
        => (/\ last'.feeds = 0
            /\ last'.sms = <<>>
            /\ last'.popped = <<>>
            /\ db'[p] = db[p]
            /\ bank'[p] = bank[p])]_vars

\* a sync pass ran for a user with an awaited transaction while the feed
\* had a transaction the cursor had not passed
C13_Witness ==
    \E p \in Phones :
        /\ SyncRan(p)
        /\ db[p].current_reconciling_tx_id # None
        /\ db[p].plaid_cursor < bank[p].feedLen

C15_TransientKeepsCursor ==
    [][\A p \in Phones :
        (SyncStep(p) /\ last'.feedError = "RATE_LIMIT_EXCEEDED")
        => db'[p].plaid_cursor = db[p].plaid_cursor]_vars

\* C16: a sync pass whose first call, the feed call, raised enqueues
\* nothing, sends nothing, and leaves the awaited id, the queue and the
\* monthly spend as they were.
C16_FeedErrorFrame ==
    [][\A p \in Phones :
        (/\ SyncStep(p) /\ last'.feedError # ""
         /\ last'.feeds = 0 /\ last'.popped = <<>>)
        => (/\ last'.enq = <<>>
            /\ last'.sms = <<>>
            /\ db'[p].transaction_queue = db[p].transaction_queue
            /\ db'[p].current_reconciling_tx_id = db[p].current_reconciling_tx_id
            /\ db'[p].monthly_spending = db[p].monthly_spending)]_vars

\* C17: after a sync pass in which a provider call raised an
\* invalid-credential error, the cursor is empty, the queue is empty and no
\* message was sent.
C17_CredentialError ==
    [][\A p \in Phones :
        (/\ SyncStep(p) /\ last'.extfail
         /\ last'.failed \in {"transactions_sync", "transactions_get"}
         /\ last'.error_msg = "INVALID_ACCESS_TOKEN environment")
        => (/\ db'[p].plaid_cursor = 0
            /\ db'[p].transaction_queue = <<>>
            /\ last'.sms = <<>>)]_vars

\* C20: a confirming reply ("correct" or a number) for an awaited
\* transaction that the provider no longer returns ends without an
\* exception, changes no spend, and the transaction is no longer awaited.
C20_SkipUnfetchable ==
    [][\A p \in Phones :
        LET t == db[p].current_reconciling_tx_id
        IN  (/\ last'.op = "handle_sms" /\ last'.phone = p
             /\ last'.body \in {"correct", "3"}
             /\ t # None /\ ~Fetchable(p, t)
             /\ ~last'.extfail)
            => (/\ last'.exc = ""
                /\ db'[p].monthly_spending = db[p].monthly_spending
                /\ db'[p].current_reconciling_tx_id # t)]_vars

\* C18: a pass of sync_all_users calls sync_single_user for every registered
\* user, whatever happens while an earlier one is synced.
C18_SyncAllReachesEveryUser ==
    [][last'.op = "sync_all_users" => last'.synced = AllUsers(db)]_vars

\* C19: a scheduled pass never starts while a pass started by an inbound
\* "sync" is under way (and the scheduler's own pass is over when its timer
\* is armed).
C19_NoOverlappingPass ==
    [][(sched.tick = 0 /\ sched'.tick # 0)
        => \A x \in Procs : sched.req[x].at = 0]_vars

\* the text "status" gets while a transaction is awaited
RefusalText == "Finishing reconciling before you can see your budget status!"

\* C21: no negative amount reaches the addition to a category's spend, and
\* while a transaction is awaited the reply "-3" changes nothing in the
\* user's row.
C21_NonNegativeOnly ==
    [][\A p \in Phones :
        (last'.op = "handle_sms" /\ last'.phone = p)
        => (/\ \A i \in DOMAIN last'.offered : last'.offered[i] >= 0
            /\ (/\ last'.body = "-3"
                /\ db[p].current_reconciling_tx_id # None
                /\ ~last'.extfail)
               => db'[p] = db[p])]_vars

\* C22: while a transaction is awaited, "status" and "balance" both get the
\* fixed refusal text and the user's row stays as it was.
C22_StatusBalanceRefused ==
    [][\A p \in Phones :
        (/\ last'.op = "handle_sms" /\ last'.phone = p
         /\ last'.body \in {"status", "balance"}
         /\ db[p].current_reconciling_tx_id # None
         /\ ~last'.extfail)
        => (last'.reply = RefusalText /\ db'[p] = db[p])]_vars

\* C23: the reply "correct" for an awaited transaction that can be fetched
\* makes the user idle and, in the same step, prompts the head of the queue
\* if there is one; with an empty queue no prompt is sent and the user
\* stays idle.
C23_ConfirmThenNext ==
    [][\A p \in Phones :
        LET t == db[p].current_reconciling_tx_id
            attrs == _get_tx_attributes(bank[p], t)
            q == db[p].transaction_queue
        IN  (/\ last'.op = "handle_sms" /\ last'.phone = p
             /\ last'.body = "correct"
             /\ t # None /\ attrs.found /\ attrs.category \in Categories
             /\ ~last'.extfail)
            => (/\ t \in Range(last'.confirmed)
                /\ IF q # <<>> /\ Fetchable(p, Head(q))
                   THEN last'.prompted = <<Head(q)>>
                   ELSE q # <<>>
                        \/ (/\ last'.prompted = <<>>
                            /\ db'[p].current_reconciling_tx_id = None))]_vars

\* the replies of the balance command
BalanceReplies == {"No spending this month yet!", "Budget Status"}

C25_BalanceLists ==
    [][\A p \in Phones :
        (/\ last'.op = "handle_sms" /\ last'.phone = p /\ last'.body = "balance"
         /\ db[p].current_reconciling_tx_id = None)
        => last'.listed =
            {f \in Categories :
                \/ OrZero(db[p].monthly_spending[f]) # 0
                \/ OrZero(db[p].budgets[f]) # 0}]_vars

\* C26: an idle user's text that is not a command word gets the static help
\* text, and the user's row (cursor, queue, awaited id, month marker,
\* limits, spend) stays as it was.
C26_UnknownCommand ==
    [][\A p \in Phones :
        (/\ last'.op = "handle_sms" /\ last'.phone = p
         /\ last'.body \in {"banana", "3,general_merchandise", "correct", "3"}
         /\ db[p].current_reconciling_tx_id = None)
        => (/\ last'.reply = HelpText
            /\ last'.sms = <<>>
            /\ db'[p] = db[p]
            /\ bank'[p] = bank[p])]_vars

\* an idle user with recorded spend and a waiting queue sent "banana"
C26_Witness ==
    \E p \in Phones :
        /\ last.op = "handle_sms" /\ last.phone = p /\ last.body = "banana"
        /\ last.reply = HelpText
        /\ db[p].current_reconciling_tx_id = None
        /\ db[p].transaction_queue # <<>>

\* C28: get_budget_data and update_budget leave the user's queue, awaited
\* id, cursor and monthly spend as they were; get_budget_data leaves the
\* limits too, and update_budget changes no limit the request does not name.
C28_BudgetFrame ==
    [][\A p \in Phones :
        (last'.phone = p /\ last'.op \in {"get_budget_data", "update_budget"})
        => (/\ db'[p].transaction_queue = db[p].transaction_queue
            /\ db'[p].current_reconciling_tx_id = db[p].current_reconciling_tx_id
            /\ db'[p].plaid_cursor = db[p].plaid_cursor
            /\ db'[p].monthly_spending = db[p].monthly_spending
            /\ last'.sms = <<>>
            /\ \A f \in Categories :
                    (last'.op = "get_budget_data" \/ f \notin last'.named)
                    => db'[p].budgets[f] = db[p].budgets[f])]_vars

\* a limit was set for one category while the other had a limit, with
\* transactions waiting in the queue
C28_Witness ==
    \E p \in Phones :
        /\ last.phone = p /\ last.op = "update_budget"
        /\ last.named = {"food_and_drink"}
        /\ db[p].budgets["general_merchandise"] # NoneVal
        /\ db[p].transaction_queue # <<>>

\* C29: a confirming reply clears the spend iff the transaction's month is
\* not the stored month marker, and a reply that cleared it leaves the
\* marker at the transaction's month, so that the month is rolled over once.
C29_RolloverOnce ==
    [][\A p \in Phones :
        LET t == db[p].current_reconciling_tx_id
            attrs == _get_tx_attributes(bank[p], t)
        IN  (/\ last'.op = "handle_sms" /\ last'.phone = p
             /\ last'.body \in {"correct", "3"}
             /\ t # None /\ attrs.found /\ attrs.category \in Categories
             /\ ~last'.extfail)
            => (/\ last'.rollover <=> MonthStart(attrs.date) # db[p].current_month
                /\ last'.rollover => db'[p].current_month = MonthStart(attrs.date))]_vars

\* C30: the reply "correct" for an awaited transaction whose provider
\* category is none of the spend categories ends without an exception and
\* adds the amount to the spend of general_merchandise.
C30_DefaultCategory ==
    [][\A p \in Phones :
        LET t == db[p].current_reconciling_tx_id
            attrs == _get_tx_attributes(bank[p], t)
        IN  (/\ last'.op = "handle_sms" /\ last'.phone = p
             /\ last'.body = "correct"
             /\ t # None /\ attrs.found
             /\ Lower(TxPrimary(t)) \notin Categories
             /\ MonthStart(attrs.date) = db[p].current_month
             /\ ~last'.extfail)
            => (/\ last'.exc = ""
                /\ OrZero(db'[p].monthly_spending["general_merchandise"])
                    = OrZero(db[p].monthly_spending["general_merchandise"])
                        + attrs.amount[2])]_vars

C31_WebhookOwnerOnly ==
    [][last'.op = "plaid_webhook" =>
        LET owners == {p \in DOMAIN db :
                        db[p].exists /\ db[p].plaid_item_id = last'.item}
        IN  /\ \A p \in DOMAIN db \ owners :
                    db'[p] = db[p] /\ bank'[p] = bank[p] /\ hist'[p] = hist[p]
            /\ owners = {} =>
                    (last'.synced = <<>> /\ last'.sms = <<>> /\ last'.feeds = 0)
            /\ owners # {} =>
                    (/\ Len(last'.synced) = 1
                     /\ last'.synced[1] \in owners
                     /\ last'.phone = last'.synced[1])]_vars

\* the webhook of the second user's item enqueued and prompted for that user
\* while the first user had transactions waiting
C31_Witness ==
    /\ last.op = "plaid_webhook" /\ last.synced = <<"u2">>
    /\ last.enq # <<>> /\ last.prompted # <<>>
    /\ "u1" \in DOMAIN db /\ db["u1"].transaction_queue # <<>>

\* the ids prompted for p and not confirmed, with the id the row awaits
Awaited(p) == hist[p].open \cup ({db[p].current_reconciling_tx_id} \ {None})

C34_CursorWithQueue ==
    [][\A p \in Phones :
        (SyncStep(p) /\ ~last'.extfail /\ last'.enq # <<>>)
        => (/\ Range(last'.enq)
                    \subseteq Range(db'[p].transaction_queue) \cup Range(last'.popped)
            /\ db'[p].plaid_cursor = last'.enq[Len(last'.enq)])]_vars

C36_EveryIdResolved ==
    \A p \in Phones :
        (\/ db[p].transaction_queue # <<>>
         \/ db[p].current_reconciling_tx_id # None
         \/ hist[p].open # {})
        ~> (/\ db[p].transaction_queue = <<>>
            /\ db[p].current_reconciling_tx_id = None
            /\ hist[p].open = {})

\* C37: connect_bank for a user who exists stores the credential and the
\* item id it was given, empties the cursor, clears every limit and every
\* monthly spend, and leaves the queue, the awaited id and the month marker
\* as they were.
C37_RelinkFrame ==
    [][\A p \in Phones :
        (last'.op = "connect_bank" /\ last'.phone = p /\ db[p].exists)
        => (/\ db'[p].plaid_access_token = last'.body
            /\ db'[p].plaid_item_id = last'.item
            /\ db'[p].plaid_cursor = 0
            /\ \A f \in Categories :
                    /\ db'[p].budgets[f] = NoneVal
                    /\ db'[p].monthly_spending[f] = NoneVal
            /\ db'[p].transaction_queue = db[p].transaction_queue
            /\ db'[p].current_reconciling_tx_id = db[p].current_reconciling_tx_id
            /\ db'[p].current_month = db[p].current_month)]_vars

\* a user with transactions waiting and a month marker was linked anew
C37_Witness ==
    \E p \in Phones :
        /\ last.op = "connect_bank" /\ last.phone = p
        /\ db[p].plaid_item_id = "item-2"
        /\ db[p].transaction_queue # <<>>
        /\ db[p].current_month # None

C39_ConfirmFrame ==
    [][\A p \in Phones :
        LET t == db[p].current_reconciling_tx_id
            attrs == _get_tx_attributes(bank[p], t)
            amount == IF last'.body = "correct" THEN attrs.amount[2] ELSE 3
        IN  (/\ last'.op = "handle_sms" /\ last'.phone = p
             /\ last'.body \in {"correct", "3"}
             /\ t # None /\ attrs.found /\ attrs.category \in Categories
             /\ MonthStart(attrs.date) = db[p].current_month
             /\ ~last'.extfail)
            => (/\ \A f \in Categories :
                    OrZero(db'[p].monthly_spending[f])
                        = OrZero(db[p].monthly_spending[f])
                            + (IF f = attrs.category THEN amount ELSE 0)
                /\ db'[p].budgets = db[p].budgets
                /\ db'[p].plaid_cursor = db[p].plaid_cursor
                /\ \/ db'[p].transaction_queue = db[p].transaction_queue
                   \/ /\ db[p].transaction_queue # <<>>
                      /\ db'[p].transaction_queue = Tail(db[p].transaction_queue))]_vars

====
